---- MODULE Spec2Model ----
(***************************************************************************)
(* Model of backup_manager.py: BackupManager.run_backup (validate_drives,  *)
(* calculate_backup_size, the free-space gate and the copy loop of         *)
(* sync_files), the one-shot --run-now path of main and the polling loop   *)
(* of schedule_daily_backup.  The two file systems are state: the source   *)
(* tree (size and mtime per file, and whether the entry can be stat'ed),   *)
(* the destination tree (files and directories).  What the operating       *)
(* system decides (a missing drive, a full disk, a copy that fails) is a   *)
(* nondeterministic input of the step that asks for it.                    *)
(***************************************************************************)
EXTENDS Integers, FiniteSets, Sequences, TLC

\* ----------------------------------------------------------------- bounds
MaxSize == 2      \* file sizes are 1..MaxSize (0 for a truncated file)
MaxTime == 2      \* modification times are 0..MaxTime
MaxTouch == 1     \* modifications of the source by something else than the run

\* Two files, each in a directory of its own below the source root.
Files == {"d1/x", "d2/y"}
Sizes == 1..MaxSize
Times == 0..MaxTime
\* The source tree at the start: two files of different sizes, written at
\* the same time; the destination may hold an older, equal or newer copy.
Source0 == [f \in Files |-> [size |-> IF f = "d1/x" THEN 1 ELSE MaxSize,
                             mtime |-> 1]]
FileRecord == [size : Sizes, mtime : Times]
Absent == [size |-> -1, mtime |-> -1]
Truncated == [size |-> 0, mtime |-> MaxTime]
FreeSpaces == 0..(Cardinality(Files) * MaxSize)

VARIABLES
  mode,          \* "now" (--run-now) or "sched" (schedule_daily_backup)
  pc,            \* position of the single thread of the program
  inFlight,      \* run_backup calls that were entered and have not returned
  due,           \* the scheduled job's next_run time has passed
  src,           \* source tree: file -> FileRecord
  broken,        \* source entries whose stat() raises (e.g. a dangling link)
  dst,           \* destination tree: file -> FileRecord or Absent
  dstDirs,       \* files whose parent directory exists in the destination
  dst0, dirs0,   \* the destination tree when the run started
  todo,          \* files the current os.walk has still to yield
  violated,      \* preconditions that did not hold when validate_drives ran
  reported,      \* preconditions validate_drives raised an exception for
  backup_size, file_count, est,     \* result of calculate_backup_size
  sized,         \* files visited by calculate_backup_size in this run
  gate, freeSeen,                    \* outcome of the free-space comparison
  copied_files, copied_size, copied, \* counters of the copy loop, files copied
  skipped,       \* files the copy loop classified as not to copy
  attempted,     \* files the copy loop has started on
  errors,        \* files with a "Failed to copy" record in the log
  result,        \* value returned by run_backup: "none", "true", "false"
  exitCode,      \* status passed to sys.exit, -1 before
  dirty, prevDirty, \* the source was modified during this / the previous run
  prev,          \* how the previous run ended: "none" (there was none),
                 \* "aborted" (returned False), "errors" (returned True
                 \* after per-file errors), "clean" (returned True, no error)
  touches

vars == <<mode, pc, inFlight, due, src, broken, dst, dstDirs, dst0, dirs0,
          todo, violated, reported, backup_size, file_count, est, sized, gate,
          freeSeen, copied_files, copied_size, copied, skipped, attempted,
          errors, result, exitCode, dirty, prevDirty, prev, touches>>

fsVars == <<dst, dstDirs>>
sizeVars == <<backup_size, file_count, est, sized>>
copyVars == <<copied_files, copied_size, copied, skipped, attempted, errors>>
schedVars == <<mode, inFlight, due>>
envVars == <<src, broken, dirty, prevDirty, prev, touches>>
startVars == <<dst0, dirs0>>

\* ------------------------------------------------------------ pure parts

\* validate_drives: the four tests in the order of the code; the first that
\* fails raises, so it is the only one reported.  "none" when all hold.
ValidateDrives_destFirst(env) ==
  IF ~env.dstExists THEN "dstExists"
  ELSE IF ~env.srcExists THEN "srcExists"
  ELSE IF ~env.srcReadable THEN "srcReadable"
  ELSE IF ~env.dstWritable THEN "dstWritable"
  ELSE "none"

ValidateDrives(env) ==
  IF ~env.srcExists THEN "srcExists"
  ELSE IF ~env.dstExists THEN "dstExists"
  ELSE IF ~env.srcReadable THEN "srcReadable"
  ELSE IF ~env.dstWritable THEN "dstWritable"
  ELSE "none"

\* What the four tests can see: os.access is false on a path that is missing.
DriveStates ==
  { e \in [srcExists : BOOLEAN, dstExists : BOOLEAN,
           srcReadable : BOOLEAN, dstWritable : BOOLEAN] :
      /\ ~e.srcExists => ~e.srcReadable
      /\ ~e.dstExists => ~e.dstWritable }

Violations(env) ==
  { c \in {"srcExists", "dstExists", "srcReadable", "dstWritable"} : ~env[c] }

\* should_copy of calculate_backup_size (sizing pass)
ShouldCopySize_lt(s, d) ==
  \/ d = Absent
  \/ s.mtime > d.mtime
  \/ s.size < d.size

ShouldCopySize(s, d) ==
  \/ d = Absent
  \/ s.mtime > d.mtime
  \/ s.size # d.size

\* should_copy of sync_files (copy pass)
ShouldCopySync_ge(s, d) ==
  \/ d = Absent
  \/ s.mtime >= d.mtime
  \/ s.size # d.size

ShouldCopySync_always(s, d) == TRUE

ShouldCopySync(s, d) ==
  \/ d = Absent
  \/ s.mtime > d.mtime
  \/ s.size # d.size

\* total_size += source_file.stat().st_size
AddSize_none(total, s) == total

AddSize(total, s) == total + s.size

\* backup_size > free_space
InsufficientSpace_ge(need, free) == need >= free

InsufficientSpace(need, free) == need > free

\* shutil.copy2: data, then copystat (mtime and mode) onto the destination
Copy2_nostat(s) == [size |-> s.size, mtime |-> MaxTime + 1]

Copy2(s) == [size |-> s.size, mtime |-> s.mtime]

\* schedule.run_pending runs a due job by calling it: only from the polling
\* loop, that is when no call of run_backup is on the stack.
RunPendingEnabled_threaded == due

RunPendingEnabled == pc = "idle" /\ due

\* ---------------------------------------------------------------- Init
Init ==
  /\ mode \in {"now", "sched"}
  /\ pc = "idle"
  /\ inFlight = 0
  /\ due = FALSE
  /\ src = Source0
  /\ broken \in {{}} \cup {{f} : f \in Files}
  /\ dstDirs \in SUBSET Files
  /\ dst \in [Files -> FileRecord \cup {Absent}]
  /\ \A f \in Files : f \notin dstDirs => dst[f] = Absent
  /\ dst0 = dst
  /\ dirs0 = dstDirs
  /\ todo = {}
  /\ violated = {}
  /\ reported = {}
  /\ backup_size = 0
  /\ file_count = 0
  /\ est = {}
  /\ sized = {}
  /\ gate = "none"
  /\ freeSeen = 0
  /\ copied_files = 0
  /\ copied_size = 0
  /\ copied = {}
  /\ skipped = {}
  /\ attempted = {}
  /\ errors = {}
  /\ result = "none"
  /\ exitCode = -1
  /\ dirty = FALSE
  /\ prevDirty = FALSE
  /\ prev = "none"
  /\ touches = 0

\* ------------------------------------------------------------- actions

\* The locals of a call of run_backup (and of the calls it makes), as they
\* are when the call starts and after it has returned.
FreshLocals ==
  /\ todo' = {}
  /\ violated' = {}
  /\ reported' = {}
  /\ backup_size' = 0
  /\ file_count' = 0
  /\ est' = {}
  /\ sized' = {}
  /\ gate' = "none"
  /\ freeSeen' = 0
  /\ copied_files' = 0
  /\ copied_size' = 0
  /\ copied' = {}
  /\ skipped' = {}
  /\ attempted' = {}
  /\ errors' = {}
  /\ result' = "none"

\* Entry of run_backup; the destination as it is now is remembered.
EnterRun ==
  /\ pc' = "validate"
  /\ inFlight' = inFlight + 1
  /\ dst0' = dst
  /\ dirs0' = dstDirs
  /\ FreshLocals
  /\ prevDirty' = dirty
  /\ dirty' = FALSE
  /\ UNCHANGED <<src, broken, dst, dstDirs, exitCode, touches, prev>>

\* main with --run-now: one call of run_backup
RunNow ==
  /\ mode = "now"
  /\ pc = "idle"
  /\ EnterRun
  /\ UNCHANGED <<mode, due>>

\* The clock reaches the job's next_run; it may do so while a run lasts.
Tick ==
  /\ mode = "sched"
  /\ ~due
  /\ due' = TRUE
  /\ UNCHANGED <<mode, pc, inFlight, src, broken, dst, dstDirs, dst0,
                 dirs0, todo, violated, reported, backup_size, file_count, est,
                 sized, gate, freeSeen, copied_files, copied_size, copied,
                 skipped, attempted, errors, result, exitCode, dirty,
                 prevDirty, prev, touches>>

\* schedule.run_pending in the loop of schedule_daily_backup
RunPending ==
  /\ mode = "sched"
  /\ RunPendingEnabled
  /\ EnterRun
  /\ due' = FALSE
  /\ UNCHANGED mode

\* validate_drives, and the except clause of run_backup when it raises
Validate ==
  /\ pc = "validate"
  /\ \E env \in DriveStates :
       /\ violated' = Violations(env)
       /\ IF ValidateDrives(env) = "none"
            THEN /\ reported' = {}
                 /\ pc' = "pass1"
                 /\ todo' = Files
                 /\ result' = result
            ELSE /\ reported' = {ValidateDrives(env)}
                 /\ pc' = "done"
                 /\ todo' = {}
                 /\ result' = "false"
  /\ UNCHANGED <<gate, freeSeen, exitCode>>
  /\ UNCHANGED <<schedVars, envVars, fsVars, startVars, sizeVars, copyVars>>

\* One file of the walk of calculate_backup_size
SizeFile ==
  /\ pc = "pass1"
  /\ \E f \in todo :
       /\ todo' = todo \ {f}
       /\ sized' = sized \cup {f}
       /\ IF f \in broken
            THEN \* stat raises: a warning, the file is not counted
                 UNCHANGED <<backup_size, file_count, est>>
            ELSE IF ShouldCopySize(src[f], dst[f])
                   THEN /\ backup_size' = AddSize(backup_size, src[f])
                        /\ file_count' = file_count + 1
                        /\ est' = est \cup {f}
                   ELSE UNCHANGED <<backup_size, file_count, est>>
  /\ UNCHANGED <<pc, violated, reported, gate, freeSeen, result, exitCode>>
  /\ UNCHANGED <<schedVars, envVars, fsVars, startVars, copyVars>>

\* get_drive_space and the comparison of sync_files
CheckSpace ==
  /\ pc = "pass1"
  /\ todo = {}
  /\ \E free \in FreeSpaces :
       /\ freeSeen' = free
       /\ IF InsufficientSpace(backup_size, free)
            THEN /\ gate' = "insufficient"
                 /\ pc' = "done"
                 /\ result' = "false"
                 /\ todo' = {}
            ELSE /\ gate' = "ok"
                 /\ pc' = "pass2"
                 /\ result' = result
                 /\ todo' = Files
  /\ UNCHANGED <<violated, reported, exitCode>>
  /\ UNCHANGED <<schedVars, envVars, fsVars, startVars, sizeVars, copyVars>>

\* One file of the copy loop of sync_files
SyncFile ==
  /\ pc = "pass2"
  /\ \E f \in todo, mkdirFails \in BOOLEAN, copyFails \in BOOLEAN,
        left \in {"same", "truncated"} :
       /\ attempted' = attempted \cup {f}
       /\ IF mkdirFails /\ f \notin dstDirs
            THEN \* dest_file.parent.mkdir raises outside the inner try: the
                 \* outer handler logs, re-raises, and run_backup returns False
                 /\ pc' = "done"
                 /\ result' = "false"
                 /\ todo' = todo \ {f}
                 /\ UNCHANGED <<dst, dstDirs, copied_files, copied_size, copied,
                                skipped, errors>>
            ELSE
              /\ dstDirs' = dstDirs \cup {f}
              /\ todo' = todo \ {f}
              /\ UNCHANGED <<pc, result>>
              /\ IF f \in broken
                   THEN \* stat raises inside the try: logged, next file
                        /\ errors' = errors \cup {f}
                        /\ UNCHANGED <<dst, copied_files, copied_size, copied,
                                       skipped>>
                   ELSE
                     IF ShouldCopySync(src[f], dst[f])
                          THEN IF copyFails
                                 THEN /\ errors' = errors \cup {f}
                                      /\ dst' = IF left = "same" THEN dst
                                                ELSE [dst EXCEPT ![f] = Truncated]
                                      /\ UNCHANGED <<copied_files, copied_size,
                                                     copied, skipped>>
                                 ELSE /\ dst' = [dst EXCEPT ![f] = Copy2(src[f])]
                                      /\ copied_files' = copied_files + 1
                                      /\ copied_size' = copied_size + src[f].size
                                      /\ copied' = copied \cup {f}
                                      /\ UNCHANGED <<skipped, errors>>
                          ELSE /\ skipped' = skipped \cup {f}
                               /\ UNCHANGED <<dst, copied_files, copied_size,
                                              copied, errors>>
  /\ freeSeen' = 0   \* free_space is not read again after the comparison
  /\ UNCHANGED <<violated, reported, gate, exitCode>>
  /\ UNCHANGED <<schedVars, envVars, startVars, sizeVars>>

\* End of the walk: "Backup completed", run_backup returns True
FinishSync ==
  /\ pc = "pass2"
  /\ todo = {}
  /\ pc' = "done"
  /\ result' = "true"
  /\ UNCHANGED <<todo, violated, reported, gate, exitCode>>
  /\ freeSeen' = 0
  /\ UNCHANGED <<schedVars, envVars, fsVars, startVars, sizeVars, copyVars>>

\* main: sys.exit(0 if success else 1)
Exit ==
  /\ mode = "now"
  /\ pc = "done"
  /\ pc' = "exited"
  /\ inFlight' = inFlight - 1
  /\ exitCode' = IF result = "true" THEN 0 ELSE 1
  /\ UNCHANGED <<mode, due, todo, violated, reported, gate, freeSeen,
                 result>>
  /\ UNCHANGED <<envVars, fsVars, startVars, sizeVars, copyVars>>

\* run_backup returns into run_pending, its locals are gone; the job is
\* rescheduled from now
ReturnToScheduler ==
  /\ mode = "sched"
  /\ pc = "done"
  /\ pc' = "idle"
  /\ inFlight' = inFlight - 1
  /\ due' = FALSE
  /\ prev' = IF result # "true" THEN "aborted"
             ELSE IF errors # {} THEN "errors" ELSE "clean"
  /\ FreshLocals
  /\ dst0' = dst
  /\ dirs0' = dstDirs
  /\ UNCHANGED <<mode, exitCode, src, broken, dst, dstDirs, dirty, prevDirty,
                 touches>>

\* Something else rewrites a source file with a different length, now (no
\* locking of either tree).  A change made while a walk is under way has the
\* effect of one made before it or after it, so the change happens between
\* two runs or between the two walks of a run.
EnvTouch ==
  /\ touches < MaxTouch
  /\ pc = "idle" \/ (pc = "pass1" /\ todo = {})
  /\ \E f \in Files :
       src' = [src EXCEPT ![f] = [size |-> (src[f].size % MaxSize) + 1,
                                  mtime |-> MaxTime]]
  /\ touches' = touches + 1
  /\ dirty' = TRUE
  /\ UNCHANGED <<broken, prevDirty, prev>>
  /\ UNCHANGED <<pc, todo, violated, reported, gate, freeSeen, result, exitCode>>
  /\ UNCHANGED <<schedVars, fsVars, startVars, sizeVars, copyVars>>

\* python backup_manager.py SRC DST --run-now
Next ==
  \/ RunNow
  \/ Validate
  \/ SizeFile
  \/ CheckSpace
  \/ SyncFile
  \/ FinishSync
  \/ Exit
  \/ EnvTouch

InitNow == Init /\ mode = "now"

Spec == InitNow /\ [][Next]_vars

\* python backup_manager.py SRC DST [--time HH:MM]
NextSched ==
  \/ Tick
  \/ RunPending
  \/ Validate
  \/ SizeFile
  \/ CheckSpace
  \/ SyncFile
  \/ FinishSync
  \/ ReturnToScheduler
  \/ EnvTouch

InitSched == Init /\ mode = "sched"

SpecSched == InitSched /\ [][NextSched]_vars

\* ------------------------------------------------------------ properties

Finished == pc \in {"done", "exited"}

\* The change-detection rule as the specification states it.
NeedsCopy(s, d) == d = Absent \/ s.mtime > d.mtime \/ s.size # d.size

SameMeta(f) ==
  dst[f] # Absent /\ dst[f].mtime = src[f].mtime /\ dst[f].size = src[f].size

\* Files the copy loop has classified or recorded an error for.
Handled == copied \cup skipped \cup errors

CheckOrder == <<"srcExists", "dstExists", "srcReadable", "dstWritable">>

\* C1: if a file failed to copy in the copy pass, run_backup reports failure
\* and the --run-now invocation exits nonzero; exit status 0 only if every
\* file classified Copy was copied.
C1_ErrorsFailTheRun ==
  /\ (pc = "done" /\ errors # {}) => result = "false"
  /\ (pc = "exited" /\ exitCode = 0) => errors = {}

\* C2: a failure on one file (directory creation, stat or copy) never aborts
\* the copy pass: when the run ends after the capacity check passed, every
\* file of the walk has been attempted.
C2_EveryFileAttempted ==
  (Finished /\ gate = "ok") => attempted = Files

\* C3: a failed validation or a sizing total above the free space makes the
\* run report failure with the destination exactly as before the run; the run
\* stops at the capacity check only if the total exceeds the free space, and
\* enters the copy pass only if it does not.
C3_PreCopyFailuresFatal ==
  /\ (reported # {} \/ gate = "insufficient") =>
        /\ Finished
        /\ result = "false"
        /\ dst = dst0
        /\ dstDirs = dirs0
        /\ attempted = {}
        /\ copied_files = 0
  /\ gate = "insufficient" => backup_size > freeSeen
  /\ (pc = "pass2" /\ attempted = {}) => (gate = "ok" /\ backup_size <= freeSeen)
  /\ reported # {} => gate = "none"

C3_Witness ==
  /\ pc = "done"
  /\ gate = "insufficient"
  /\ est = Files
  /\ \E f \in Files : dst0[f] = Absent /\ f \notin dirs0

\* C4 as stated: one validate call reports every violated precondition.
C4_AllViolationsReported ==
  Finished => reported = violated

\* C4 amended: validate_drives tests source exists, destination exists, source
\* readable, destination writable in that order and reports only the first
\* violated one; the run then fails before any traversal of the source.
C4_FirstViolationReported ==
  /\ violated = {} => reported = {}
  /\ violated # {} =>
        /\ \E i \in 1..Len(CheckOrder) :
              /\ reported = {CheckOrder[i]}
              /\ CheckOrder[i] \in violated
              /\ \A j \in 1..(i - 1) : CheckOrder[j] \notin violated
        /\ result = "false"
        /\ sized = {}
        /\ attempted = {}

C4_Witness ==
  /\ pc = "done"
  /\ violated = {"srcExists", "dstExists", "srcReadable", "dstWritable"}
  /\ reported = {"srcExists"}

C7_ChangeDetectionPolicy ==
  [][ \A f \in Files :
        /\ (f \in sized' /\ f \notin sized /\ f \notin broken) =>
              (f \in est' <=> NeedsCopy(src[f], dst[f]))
        /\ (f \in Handled' /\ f \notin Handled /\ f \notin broken) =>
              (f \in skipped' <=> ~NeedsCopy(src[f], dst[f])) ]_vars

C7_Witness ==
  /\ pc = "done"
  /\ \E f \in Files : f \in skipped /\ f \notin est
  /\ \E f \in Files : f \in copied /\ f \in est /\ dst0[f] # Absent
                      /\ dst0[f].mtime >= src[f].mtime

\* C8: a file whose destination counterpart has the same modification time
\* and the same size is not copied, and the destination file is left as is.
C8_SkipLeavesDestination ==
  [][ \A f \in Files :
        SameMeta(f) =>
           /\ dst'[f] = dst[f]
           /\ f \in copied' => f \in copied
           /\ copied_files' # copied_files => \E g \in Files \ {f} :
                                                 g \in copied' /\ g \notin copied
    ]_vars

C8_Witness ==
  /\ pc = "done"
  /\ \E f \in Files : f \in skipped /\ SameMeta(f) /\ dst[f] = dst0[f]
  /\ copied # {}

\* C9: the daily trigger never has two runs in flight: a run_backup starts
\* only after the previous one has returned, also when the next scheduled
\* time passes during a run.
C9_AtMostOneRunInFlight ==
  /\ inFlight \in {0, 1}
  /\ inFlight = 1 <=> pc # "idle"

C9_Witness ==
  /\ prev # "none"
  /\ due
  /\ pc = "pass2"
  /\ inFlight = 1

\* C10: with no change to the trees other than by the run, the files copied
\* are among the files the sizing pass counted, the copied count and bytes
\* never exceed the estimate and equal it when the pass ends without a
\* per-file error; nothing is copied before the estimate passed the
\* free-space comparison.
C10_EstimateBoundsCopyPass ==
  /\ ~dirty =>
        /\ copied \subseteq est
        /\ copied_files <= file_count
        /\ copied_size <= backup_size
        /\ (result = "true" /\ errors = {}) =>
              /\ copied = est
              /\ copied_files = file_count
              /\ copied_size = backup_size
  /\ (attempted # {} \/ copied_files > 0 \/ dst # dst0 \/ dstDirs # dirs0) =>
        (gate = "ok" /\ sized = Files)

C10_Witness ==
  /\ pc = "exited"
  /\ ~dirty
  /\ copied = Files
  /\ copied_size = backup_size
  /\ backup_size > file_count

====
